---- MODULE Spec2Model ----
(***************************************************************************)
(* bleClockSync: the duty cycle of main.py (main -> main_workflow ->       *)
(* ensure_wifi -> sync_rtc -> scan_for_devices -> sync_devices -> deep     *)
(* sleep, or the fatal handler and a hard reset).                          *)
(*                                                                         *)
(* Every handler step is a record-valued operator X_step(m, e, r) over the *)
(* program state m, the environment's answer e and the result r of the     *)
(* step's post_log_sync call.  The action X applies X_step to the program  *)
(* variables, and applies the same step with a delivered log record to the *)
(* reference run `ref`, which sees the same environment but a log          *)
(* collector that never fails.                                             *)
(***************************************************************************)
EXTENDS Integers, Sequences, FiniteSets, TLC

\* ----------------------------------------------------------------- bounds
MaxFails == 7        \* largest ntp_fails counter found in RTC memory at power-on
MaxAds == 3          \* advertisements one scan window delivers
MaxCycles == 2       \* wake cycles followed
MaxAttempts == 2     \* boot.connect_wifi: largest `attempts`
MaxCheckSeconds == 2 \* boot.connect_wifi: largest `check_seconds`
MaxInternetTries == 2 \* boot.connect_wifi: largest `max_internet_tries`
MaxDays == 6         \* boot.sync_rtc: days after the epoch an NTP answer names

\* ------------------------------------------------------ program constants
WIFI_BACKOFF_S == <<5, 10, 20>>
NTP_TRIES == 5
BASE_SLEEP_SEC == 14400
LOG_RETRIES == 3
MIN_YEAR == 2023
SYNC_RTC_TRIES == 5  \* boot.py sync_rtc: tries
TZ_OFFSET == 25205   \* boot.py sync_rtc: tz_offset

NONE == -1           \* a key that is absent from a dict / a value not yet set

\* LY_CLOCKS, upper-cased (target_macs), and the other addresses on the air
LY_CLOCKS == {"18:5E:D1:40:DC:CB", "E7:2E:00:50:60:74"}
Addresses == LY_CLOCKS \cup {"A4:C1:38:00:00:01"}
\* the same addresses as str(result) spells them (addr_hex: lower case)
AirAddresses == {"18:5e:d1:40:dc:cb", "e7:2e:00:50:60:74", "a4:c1:38:00:00:01"}
\* str.upper() of an address text
upper(text) ==
    CASE text = "18:5e:d1:40:dc:cb" -> "18:5E:D1:40:DC:CB"
      [] text = "e7:2e:00:50:60:74" -> "E7:2E:00:50:60:74"
      [] text = "a4:c1:38:00:00:01" -> "A4:C1:38:00:00:01"
      [] OTHER -> text
\* scan_for_devices: no result in hand
NoAd == [mac |-> "", name |-> ""]
\* advertised names: none, one holding a product identifier, one holding none
Names == {"", "LYWSD02MMC", "Mi Band"}
ProductNames == {"LYWSD02MMC"}

\* years an NTP answer (and so the RTC) can carry: 2000 is the epoch-zero answer
Years == {2000, 2023, 2024}

\* ------------------------------------------------------------ state dicts
\* the dict load_state returns: the keys a state dict is asked for, NONE when the
\* key is absent (main.py reads and writes wifi_fails and ntp_fails only)
EmptyDict == [wifi_fails |-> NONE, ntp_fails |-> NONE, diagnostic_token |-> NONE]

StateKeys == <<"wifi_fails", "ntp_fails", "diagnostic_token">>

dict_get(d, key, default) ==
    IF d[key] = NONE THEN default ELSE d[key]

\* ujson.dumps of a state dict: the text is the list of its key/value pairs
RECURSIVE ujson_dumps_from(_, _)
ujson_dumps_from(d, i) ==
    IF i > Len(StateKeys) THEN <<>>
    ELSE (IF d[StateKeys[i]] = NONE THEN <<>>
          ELSE << <<StateKeys[i], d[StateKeys[i]]>> >>)
         \o ujson_dumps_from(d, i + 1)

\* a serialiser that writes the first counter only
ujson_dumps_first_only(d) ==
    IF d.wifi_fails = NONE THEN <<>> ELSE << <<"wifi_fails", d.wifi_fails>> >>

ujson_dumps(d) == ujson_dumps_from(d, 1)

\* ujson.loads of such a text: the last pair of a key wins, missing keys are absent
RECURSIVE ujson_loads_from(_, _)
ujson_loads_from(pairs, acc) ==
    IF pairs = <<>> THEN acc
    ELSE ujson_loads_from(Tail(pairs), [acc EXCEPT ![Head(pairs)[1]] = Head(pairs)[2]])

ujson_loads(text) == ujson_loads_from(text, EmptyDict)

\* RTC memory: empty after power loss, undecodable bytes, or a JSON text
EmptyMem == [kind |-> "empty", text |-> <<>>]
CorruptMem == [kind |-> "corrupt", text |-> <<>>]
JsonMem(d) == [kind |-> "json", text |-> ujson_dumps(d)]

load_state(memory) ==
    IF memory.kind = "json" THEN ujson_loads(memory.text) ELSE EmptyDict

save_state(st) == JsonMem(st)

\* ---------------------------------------------------------- post_log_sync
\* k = how many of the delivery attempts fail before one succeeds (k >= retries:
\* all of them).  Without the bare except of line 99 the first failure gets out.
post_log_sync_no_except(k, retries) ==
    IF k = 0 THEN "True" ELSE "raise"

post_log_sync(k, retries) ==
    IF k < retries THEN "True" ELSE "False"

\* --------------------------------------------------------- sleep duration
\* line 295 with strict comparisons at the thresholds
sleep_multiplier_off_by_one(ntp_fails) ==
    IF ntp_fails > 6 THEN 4 ELSE IF ntp_fails > 3 THEN 2 ELSE 1

\* line 295
sleep_multiplier(ntp_fails) ==
    IF ntp_fails >= 6 THEN 4 ELSE IF ntp_fails >= 3 THEN 2 ELSE 1

VARIABLES
    pc,            \* position in main()
    cycle,         \* wake cycles started
    memory,        \* rtc.memory(): the non-volatile slot
    rtc,           \* the real-time clock, by the year it reads
    sleep_sec,     \* main_workflow: sleep_sec
    state,         \* ensure_wifi / sync_rtc: the local dict `state`
    fails,         \* ensure_wifi: fails
    bi,            \* ensure_wifi: index of `backoff` in WIFI_BACKOFF_S
    elapsed,       \* ensure_wifi: time.time() - t0
    wifi_ok,       \* ensure_wifi's result: "none", "True", "False"
    attempt,       \* sync_rtc: attempt
    ok_ntp,        \* main_workflow: ok_ntp, "none" before sync_rtc returns
    found_targets, \* scan_for_devices: found_targets
    nads,          \* advertisements the scanner has yielded
    ad,            \* scan_for_devices: mac and name of the matching result
                   \* in hand
    todo,          \* sync_devices: devices not yet iterated
    results,       \* sync_devices: results, "none" for a mac without entry
    mac,           \* sync_devices: mac
    connection,    \* set_time: whether the local `connection` is bound
    outcome,       \* set_time: "True", "False", "raise" or "none" while running
    stages,        \* stages entered in this cycle, in order
    ntp_queries,   \* ntptime.settime() calls of this sync_rtc call
    ntp_valid,     \* tries of this sync_rtc call that passed the year check
    ntp_rejected,  \* tries of this sync_rtc call with a year below MIN_YEAR
    ntp_queried,   \* ntptime.settime() was called in this cycle
    ble_written,   \* char.write was called in this cycle
    opened,        \* links opened by device.connect in this set_time call
    closed,        \* connection.disconnect calls of this set_time call
    slept_ms,      \* argument of machine.deepsleep, NONE while awake
    err,           \* the exception that reached main()'s handler, "none" if none
    log_lost,      \* a record's delivery failed and the record was discarded
    ntp0,          \* ntp_fails in the slot when the cycle started
    wifi0,         \* wifi_fails in the slot when ensure_wifi was entered
    connects,      \* wlan.connect calls of this ensure_wifi call
    linked0,       \* ensure_wifi: wlan.isconnected() on entry, "none" before
    links,         \* sync_devices: links device.connect opened that nothing
                   \* has closed
    last_saved,    \* the dict of the latest save_state call (at power-on: what
                   \* the slot holds)
    ref,           \* the same run with every log record delivered
    boot           \* boot.py: position, arguments and locals

vars == <<pc, cycle, memory, rtc, sleep_sec, state, fails, bi, elapsed, wifi_ok,
          attempt, ok_ntp, found_targets, nads, ad, todo, results, mac, connection,
          outcome, stages, ntp_queries, ntp_valid, ntp_rejected, ntp_queried,
          ble_written, opened, closed, slept_ms, err, log_lost, ntp0, wifi0,
          connects, linked0, links, last_saved, ref, boot>>

\* the program variables as one record, and back
Cur ==
    [pc |-> pc, cycle |-> cycle, memory |-> memory, rtc |-> rtc,
     sleep_sec |-> sleep_sec, state |-> state, fails |-> fails, bi |-> bi,
     elapsed |-> elapsed, wifi_ok |-> wifi_ok, attempt |-> attempt,
     ok_ntp |-> ok_ntp, found_targets |-> found_targets, nads |-> nads,
     ad |-> ad,
     todo |-> todo, results |-> results, mac |-> mac, connection |-> connection,
     outcome |-> outcome, stages |-> stages, ntp_queries |-> ntp_queries,
     ntp_valid |-> ntp_valid, ntp_rejected |-> ntp_rejected,
     ntp_queried |-> ntp_queried, ble_written |-> ble_written,
     opened |-> opened, closed |-> closed,
     slept_ms |-> slept_ms, err |-> err, log_lost |-> log_lost,
     ntp0 |-> ntp0, wifi0 |-> wifi0, connects |-> connects,
     linked0 |-> linked0, links |-> links, last_saved |-> last_saved]

Apply(m) ==
    /\ pc' = m.pc /\ cycle' = m.cycle /\ memory' = m.memory /\ rtc' = m.rtc
    /\ sleep_sec' = m.sleep_sec /\ state' = m.state /\ fails' = m.fails
    /\ bi' = m.bi /\ elapsed' = m.elapsed /\ wifi_ok' = m.wifi_ok
    /\ attempt' = m.attempt /\ ok_ntp' = m.ok_ntp
    /\ found_targets' = m.found_targets /\ nads' = m.nads /\ ad' = m.ad
    /\ todo' = m.todo
    /\ results' = m.results /\ mac' = m.mac /\ connection' = m.connection
    /\ outcome' = m.outcome /\ stages' = m.stages
    /\ ntp_queries' = m.ntp_queries /\ ntp_valid' = m.ntp_valid
    /\ ntp_rejected' = m.ntp_rejected /\ ntp_queried' = m.ntp_queried
    /\ ble_written' = m.ble_written
    /\ opened' = m.opened /\ closed' = m.closed /\ slept_ms' = m.slept_ms
    /\ err' = m.err /\ log_lost' = m.log_lost /\ ntp0' = m.ntp0
    /\ wifi0' = m.wifi0 /\ last_saved' = m.last_saved
    /\ connects' = m.connects /\ linked0' = m.linked0 /\ links' = m.links

Apply_Init(m) ==
    /\ pc = m.pc /\ cycle = m.cycle /\ memory = m.memory /\ rtc = m.rtc
    /\ sleep_sec = m.sleep_sec /\ state = m.state /\ fails = m.fails
    /\ bi = m.bi /\ elapsed = m.elapsed /\ wifi_ok = m.wifi_ok
    /\ attempt = m.attempt /\ ok_ntp = m.ok_ntp
    /\ found_targets = m.found_targets /\ nads = m.nads /\ ad = m.ad
    /\ todo = m.todo
    /\ results = m.results /\ mac = m.mac /\ connection = m.connection
    /\ outcome = m.outcome /\ stages = m.stages
    /\ ntp_queries = m.ntp_queries /\ ntp_valid = m.ntp_valid
    /\ ntp_rejected = m.ntp_rejected /\ ntp_queried = m.ntp_queried
    /\ ble_written = m.ble_written
    /\ opened = m.opened /\ closed = m.closed /\ slept_ms = m.slept_ms
    /\ err = m.err /\ log_lost = m.log_lost /\ ntp0 = m.ntp0
    /\ wifi0 = m.wifi0 /\ last_saved = m.last_saved
    /\ connects = m.connects /\ linked0 = m.linked0 /\ links = m.links

\* working memory at the start of a wake cycle (deep sleep and reset clear it)
Boot(mem, clock, n) ==
    [pc |-> "main", cycle |-> n, memory |-> mem, rtc |-> clock,
     sleep_sec |-> NONE, state |-> EmptyDict, fails |-> 0, bi |-> 1,
     elapsed |-> 0, wifi_ok |-> "none", attempt |-> 1, ok_ntp |-> "none",
     found_targets |-> {}, nads |-> 0, ad |-> NoAd, todo |-> {},
     results |-> [a \in Addresses |-> "none"], mac |-> "", connection |-> FALSE,
     outcome |-> "none", stages |-> <<>>, ntp_queries |-> 0, ntp_valid |-> 0,
     ntp_rejected |-> 0, ntp_queried |-> FALSE, ble_written |-> FALSE,
     opened |-> 0, closed |-> 0,
     slept_ms |-> NONE, err |-> "none", log_lost |-> FALSE,
     ntp0 |-> dict_get(load_state(mem), "ntp_fails", 0),
     wifi0 |-> dict_get(load_state(mem), "wifi_fails", 0),
     connects |-> 0, linked0 |-> "none", links |-> 0,
     last_saved |-> load_state(mem)]

\* the slot at power-on: empty, undecodable, or a dict an earlier cycle saved
\* (ensure_wifi always writes wifi_fails; sync_rtc adds ntp_fails)
InitMemories ==
    {EmptyMem, CorruptMem, JsonMem([EmptyDict EXCEPT !.wifi_fails = 3])}
    \cup {JsonMem([EmptyDict EXCEPT !.wifi_fails = 0, !.ntp_fails = n]) : n \in 0 .. MaxFails}

\* the clock at power-on: the epoch until a cycle has set it
InitClock(mem) ==
    IF load_state(mem).ntp_fails = NONE THEN 2000 ELSE 2024

\* ------------------------------------------------------------- exceptions
\* an exception leaving main_workflow reaches main()'s `except Exception`
\* (a handler that swallows the exception and carries on to deep sleep)
main_except_swallow(m, cause) ==
    [m EXCEPT !.pc = "main_sleeping", !.err = cause]

main_except(m, cause) ==
    [m EXCEPT !.pc = "fatal", !.err = cause]

\* one post_log_sync call with result r: `before` is the caller when the call is
\* made, `after` the caller once the call has returned and the step is done
logged(before, r, after) ==
    IF r = "raise" THEN main_except(before, "post_log_sync")
    ELSE [after EXCEPT !.log_lost = @ \/ (r = "False")]

enter(m, stage) == [m EXCEPT !.stages = Append(@, stage)]

\* ------------------------------------------------- main / main_workflow
\* main_workflow line 299: the stage that follows ensure_wifi()
\* (without the early return of lines 299-302)
after_ensure_wifi_ignore(ok) == "sync_rtc"

after_ensure_wifi(ok) ==
    IF ok THEN "sync_rtc" ELSE "wifi_failed"

\* main_workflow lines 305-308: the stage that follows sync_rtc()
\* (with the BLE stages skipped when the clock sync failed)
after_sync_rtc_skip_ble(ok) ==
    IF ok THEN "scan" ELSE "summary"

after_sync_rtc(ok) == "scan"

\* main() line 331-334 and main_workflow lines 293-298
main_step(m, e, r) ==
    LET st == load_state(m.memory)
        nf == dict_get(st, "ntp_fails", 0)
        m1 == [enter(m, "main") EXCEPT
                 !.sleep_sec = BASE_SLEEP_SEC * sleep_multiplier(nf)]
    IN  logged(m1, r, [m1 EXCEPT !.pc = "ensure_wifi"])

\* ----------------------------------------------------------- ensure_wifi
\* lines 126-130
ensure_wifi_step(m, e, r) ==
    LET st == load_state(m.memory)
        m1 == enter(m, "ensure_wifi")
    IN  logged(m1, r,
               [m1 EXCEPT !.state = st,
                          !.fails = dict_get(st, "wifi_fails", 0),
                          !.wifi0 = dict_get(st, "wifi_fails", 0),
                          !.bi = 1, !.pc = "wifi_for"])

\* lines 135 and 147
\* (without the reset)
wifi_reset_keep(st) == st

wifi_reset(st) == [st EXCEPT !.wifi_fails = 0]

\* lines 134-137 and 143-149: connected, reset the counter and return True
wifi_connected(m, r) ==
    LET st == wifi_reset(m.state)
    IN  logged(m, r,
               [m EXCEPT !.state = st, !.memory = save_state(st), !.last_saved = st,
                         !.wifi_ok = "True", !.pc = "wifi_return"])

\* line 151, once per backoff that ran out
count_failed_backoff(n) == n + 1

\* lines 132-140: e is "connected", "connect" or "OSError" (wlan.connect raises)
wifi_for_step(m, e, r) ==
    LET m1 == [m EXCEPT !.linked0 = IF @ # "none" THEN @
                                    ELSE IF e = "connected" THEN "True"
                                    ELSE "False"]
        m2 == [m1 EXCEPT !.connects = @ + 1]
    IN  IF e = "connected" THEN wifi_connected(m1, r)
        ELSE IF e = "OSError" THEN main_except(m2, "OSError")
        ELSE [m2 EXCEPT !.elapsed = 0, !.pc = "wifi_wait"]

\* lines 141-151: e is wlan.isconnected() of this poll
wifi_wait_step(m, e, r) ==
    IF m.elapsed < WIFI_BACKOFF_S[m.bi]
    THEN IF e THEN wifi_connected(m, r)
         ELSE [m EXCEPT !.elapsed = @ + 1]
    ELSE [m EXCEPT !.fails = count_failed_backoff(@), !.bi = @ + 1,
                   !.pc = IF m.bi + 1 > Len(WIFI_BACKOFF_S)
                          THEN "wifi_exhausted" ELSE "wifi_for"]

\* lines 153-159
wifi_exhausted_step(m, e, r) ==
    LET st == [m.state EXCEPT !.wifi_fails = m.fails]
        m1 == [m EXCEPT !.state = st, !.memory = save_state(st), !.last_saved = st]
    IN  logged(m1, r, [m1 EXCEPT !.wifi_ok = "False", !.pc = "wifi_return"])

\* lines 137, 149, 159 and main_workflow line 299: ensure_wifi returns, its
\* locals are gone
wifi_return_step(m, e, r) ==
    [m EXCEPT !.state = EmptyDict, !.fails = 0, !.bi = 1, !.elapsed = 0,
              !.connects = 0, !.linked0 = "none",
              !.pc = after_ensure_wifi(m.wifi_ok = "True")]

\* main_workflow lines 300-302
wifi_failed_step(m, e, r) ==
    LET m1 == enter(m, "wifi_failed")
    IN  logged(m1, r, [m1 EXCEPT !.pc = "main_sleeping"])

\* -------------------------------------------------------------- sync_rtc
\* lines 163-164
sync_rtc_step(m, e, r) ==
    LET m1 == enter(m, "sync_rtc")
    IN  logged(m1, r,
               [m1 EXCEPT !.state = load_state(m.memory), !.attempt = 1,
                          !.pc = "ntp_try"])

\* ntptime.settime() with an answer: the RTC is set from the answer
ntptime_settime(clock, answer) == answer

\* time.gmtime(utc)[0] of a clock reading
gmtime_year(clock) == clock

\* line 173
plausible(year) == ~(year < MIN_YEAR)

\* line 176
\* (without the reset)
ntp_reset_keep(st) == st

ntp_reset(st) == [st EXCEPT !.ntp_fails = 0]

\* line 181
\* (a failure that is not counted)
ntp_count_none(st) == st

ntp_count(st) == [st EXCEPT !.ntp_fails = dict_get(st, "ntp_fails", 0) + 1]

\* lines 180-188: the except branch
ntp_failed(m, r) ==
    LET st == ntp_count(m.state)
        m1 == [m EXCEPT !.state = st, !.memory = save_state(st), !.last_saved = st]
    IN  logged(m1, r, [m1 EXCEPT !.attempt = @ + 1])

\* lines 166-179 and 189: e is the year of the answer, NONE when the query
\* raises OSError
ntp_try_step(m, e, r) ==
    IF m.attempt > NTP_TRIES
    THEN [m EXCEPT !.ok_ntp = "False", !.pc = "ntp_return"]
    ELSE LET q == [m EXCEPT !.ntp_queries = @ + 1, !.ntp_queried = TRUE]
         IN  IF e = NONE THEN ntp_failed(q, r)
             ELSE LET m1 == [q EXCEPT !.rtc = ntptime_settime(@, e)]
                  IN  IF ~plausible(gmtime_year(m1.rtc))
                      THEN ntp_failed([m1 EXCEPT !.ntp_rejected = @ + 1], r)
                      ELSE LET st == ntp_reset(m1.state)
                               m2 == [m1 EXCEPT !.state = st,
                                                !.memory = save_state(st), !.last_saved = st,
                                                !.ntp_valid = @ + 1]
                           IN  logged(m2, r,
                                      [m2 EXCEPT !.ok_ntp = "True",
                                                 !.pc = "ntp_return"])

\* lines 179, 189 and main_workflow line 305: sync_rtc returns, its locals are
\* gone
ntp_return_step(m, e, r) ==
    [m EXCEPT !.state = EmptyDict, !.attempt = 1, !.ntp_queries = 0,
              !.ntp_valid = 0, !.ntp_rejected = 0,
              !.pc = after_sync_rtc(m.ok_ntp = "True")]

\* ------------------------------------------------------ scan_for_devices
\* lines 195-202
scan_step(m, e, r) ==
    LET m1 == [enter(m, "scan") EXCEPT !.found_targets = {}]
    IN  logged(m1, r, [m1 EXCEPT !.pc = "scan_open"])

\* lines 254-260: the scan raised, return what was collected
scan_failed(m, r) ==
    logged(m, r, [m EXCEPT !.nads = 0, !.pc = "found_devices"])

\* lines 206-213: e is "ok" or "raise" (aioble.scan cannot start)
scan_open_step(m, e, r) ==
    IF e = "raise" THEN scan_failed(m, r)
    ELSE [m EXCEPT !.pc = "scan_loop"]

\* line 233
name_matches(name) == name \in ProductNames

\* (a rule that takes every result)
is_match_any(addr, name) == TRUE

is_match(addr, name) ==
    addr \in LY_CLOCKS \/ (name # "" /\ name_matches(name))

\* lines 217 and 242
found_all(found) == LY_CLOCKS \subseteq found

\* lines 215-240: e is the scanner's next event: the window ends ("end"), the
\* scanner raises ("raise"), or it yields a result ("ad"; "bad" when the text of
\* the result has no address to split out)
scan_loop_step(m, e, r) ==
    IF e.kind = "end" THEN [m EXCEPT !.nads = 0, !.pc = "found_devices"]
    ELSE IF e.kind = "raise" THEN scan_failed(m, r)
    ELSE LET m1 == [m EXCEPT !.nads = @ + 1]
         IN  IF found_all(m1.found_targets)
             THEN logged(m1, r, [m1 EXCEPT !.nads = 0, !.pc = "found_devices"])
             ELSE IF e.kind = "bad" THEN logged(m1, r, m1)
             ELSE IF is_match(upper(e.mac), e.name)
             THEN LET m2 == [m1 EXCEPT !.found_targets = @ \cup {upper(e.mac)},
                                       !.ad = [mac |-> upper(e.mac),
                                               name |-> e.name]]
                  IN  logged(m2, r, [m2 EXCEPT !.pc = "scan_check"])
             ELSE m1

\* lines 242-248
scan_check_step(m, e, r) ==
    IF found_all(m.found_targets)
    THEN logged(m, r, [m EXCEPT !.nads = 0, !.ad = NoAd,
                                !.pc = "found_devices"])
    ELSE [m EXCEPT !.ad = NoAd, !.pc = "scan_loop"]

\* main_workflow lines 308-312
found_devices_step(m, e, r) ==
    IF m.found_targets # {}
    THEN [enter(m, "sync_devices") EXCEPT !.todo = m.found_targets,
                                          !.pc = "sync_devices"]
    ELSE [m EXCEPT !.pc = "summary"]

\* ---------------------------------------------- sync_devices and set_time
\* line 267, `for mac in devices`: the devices still to come once e is taken
\* (and an iteration that does not move on)
devices_left_same(devices, e) == devices

devices_left(devices, e) == devices \ {e}

\* lines 265-268 and 287: e is the next mac of the iteration
sync_devices_step(m, e, r) ==
    LET m1 == [m EXCEPT !.mac = "", !.connection = FALSE, !.outcome = "none",
                        !.opened = 0, !.closed = 0]
    IN  IF m.todo = {} THEN [m1 EXCEPT !.links = 0, !.pc = "summary"]
        ELSE [m1 EXCEPT !.mac = e, !.todo = devices_left(@, e),
                        !.pc = "ble_connect"]

\* lines 72-73: what set_time does with an exception raised in its try block
set_time_except(exc) ==
    IF exc \in {"TimeoutError", "OSError"} THEN "False" ELSE "raise"

\* one awaited call of the try block: e is "ok" or the exception it raises
ble_call(m, e, done) ==
    IF e = "ok" THEN done
    ELSE [m EXCEPT !.outcome = set_time_except(e), !.pc = "ble_finally"]

\* lines 62-63
ble_connect_step(m, e, r) ==
    ble_call(m, e, [m EXCEPT !.connection = TRUE, !.opened = @ + 1,
                             !.links = @ + 1, !.pc = "ble_service"])

\* line 66
ble_service_step(m, e, r) ==
    ble_call(m, e, [m EXCEPT !.pc = "ble_char"])

\* line 67
ble_char_step(m, e, r) ==
    ble_call(m, e, [m EXCEPT !.pc = "ble_write"])

\* lines 70-71
ble_write_step(m, e, r) ==
    LET m1 == [m EXCEPT !.ble_written = TRUE]
    IN  ble_call(m1, e, [m1 EXCEPT !.outcome = "True", !.pc = "ble_finally"])

\* line 75, `'connection' in locals()`: CPython lists the locals that are bound;
\* MicroPython keeps locals in slots and locals() does not list them, whatever
\* is bound (`listed` tells which runtime answers)
in_locals(bound, listed) == bound /\ listed

\* lines 74-76: e is "ok" or "raise" (connection.disconnect returns or raises),
\* or "unlisted" when locals() does not list the function's locals
ble_finally_step(m, e, r) ==
    LET m1 == IF in_locals(m.connection, e # "unlisted")
              THEN [m EXCEPT !.closed = @ + 1, !.links = @ - 1,
                             !.outcome = IF e = "raise" THEN "raise" ELSE @]
              ELSE m
    IN  [m1 EXCEPT !.pc = IF m1.outcome = "raise" THEN "ble_error"
                          ELSE "ble_result"]

\* lines 269-279
ble_result_step(m, e, r) ==
    LET m1 == [m EXCEPT !.results[m.mac] = m.outcome]
    IN  logged(m1, r, [m1 EXCEPT !.pc = "sync_devices"])

\* lines 280-286
ble_error_step(m, e, r) ==
    LET m1 == [m EXCEPT !.results[m.mac] = "False"]
    IN  logged(m1, r, [m1 EXCEPT !.pc = "sync_devices"])

\* ----------------------------------------------------- summary and sleep
\* main_workflow lines 315-327
summary_step(m, e, r) ==
    LET m1 == enter(m, "summary")
    IN  logged(m1, r, [m1 EXCEPT !.pc = "main_sleeping"])

\* main() lines 337-341
main_sleeping_step(m, e, r) ==
    LET m1 == enter(m, "sleep")
    IN  logged(m1, r, [m1 EXCEPT !.slept_ms = m.sleep_sec * 1000,
                                 !.pc = "asleep"])

\* main() lines 343-350: post_log_sync raising here leaves main() altogether
fatal_step(m, e, r) ==
    LET m1 == enter(m, "fatal")
    IN  IF r = "raise" THEN [m1 EXCEPT !.pc = "crashed"]
        ELSE [m1 EXCEPT !.log_lost = @ \/ (r = "False"), !.pc = "reset"]

\* ================================================================ boot.py
\* boot.py runs connect_wifi(), ensure_dependencies() and sync_rtc() (main(),
\* lines 125-133).  The record `boot` holds its state; SpecBoot follows it for
\* the parameter values InitBoot draws, while main.py's variables stay put.

\* lines 57-64 and 103: the state on entry to connect_wifi
boot_entry(attempts, check_seconds, max_internet_tries, deep_sleep_ms) ==
    [pc |-> "for", attempts |-> attempts, check_seconds |-> check_seconds,
     max_internet_tries |-> max_internet_tries, deep_sleep_ms |-> deep_sleep_ms,
     rounds |-> 0, waited |-> 0, tries |-> 0, checks |-> <<>>,
     deepsleeps |-> <<>>, result |-> "none",
     attempt |-> 1, utc |-> NONE, weekday |-> NONE, rtc_ok |-> "none"]

\* boot.py is not running
BootOff == [boot_entry(0, 0, 0, 0) EXCEPT !.pc = "off"]

\* lines 73-79: one more round of `for _ in range(attempts)`; e is "connected"
\* (isconnected() is True, no connect call), "connect" or "raise" (wlan.connect
\* raises and the error is printed)
connect_wifi_for_step(b, e) ==
    IF b.rounds = b.attempts THEN [b EXCEPT !.pc = "deepsleep"]
    ELSE [b EXCEPT !.rounds = @ + 1, !.waited = 0, !.pc = "poll"]

\* lines 80-84: e is wlan.isconnected() of this poll
connect_wifi_poll_step(b, e) ==
    IF b.waited < b.check_seconds
    THEN IF e THEN [b EXCEPT !.pc = "linked"]
         ELSE [b EXCEPT !.waited = @ + 1]
    ELSE [b EXCEPT !.pc = "linked"]

\* line 86: e is wlan.isconnected()
connect_wifi_linked_step(b, e) ==
    IF e THEN [b EXCEPT !.tries = 0, !.pc = "check"]
    ELSE [b EXCEPT !.pc = "for"]

\* a check loop that carries on after a successful check
internet_check_no_return(b, e) ==
    IF b.tries < b.max_internet_tries
    THEN [b EXCEPT !.tries = @ + 1, !.checks = Append(@, e)]
    ELSE [b EXCEPT !.pc = "for"]

\* lines 87-94: one internet check; e is TRUE when ntptime.settime() returns
internet_check_step(b, e) ==
    IF b.tries < b.max_internet_tries
    THEN IF e THEN [b EXCEPT !.tries = @ + 1, !.checks = Append(@, TRUE),
                             !.result = "True", !.pc = "returned"]
         ELSE [b EXCEPT !.tries = @ + 1, !.checks = Append(@, FALSE)]
    ELSE [b EXCEPT !.pc = "for"]

\* lines 96-100: e is "returns" (the stub of the tests), "raises" (swallowed) or
\* "halts" (the chip powers down: machine.deepsleep does not return)
deepsleep_step(b, e) ==
    LET b1 == [b EXCEPT !.deepsleeps = Append(@, b.deep_sleep_ms)]
    IN  IF e = "halts" THEN [b1 EXCEPT !.pc = "halted"]
        ELSE [b1 EXCEPT !.result = "False", !.pc = "returned"]

\* main() lines 128-130: connect_wifi has returned (its result is not used);
\* ensure_dependencies, then sync_rtc() is entered
boot_main_step(b, e) ==
    [BootOff EXCEPT !.pc = "sync_rtc", !.attempt = 1]


\* time.gmtime(secs)[6]: the weekday, 0 = Monday; day 0 of the port's epoch
\* (2000-01-01) is a Saturday
SECONDS_PER_DAY == 86400
EPOCH_WEEKDAY == 5
gmtime_weekday(secs) == ((secs \div SECONDS_PER_DAY) + EPOCH_WEEKDAY) % 7

\* a weekday field that wraps Sunday to 0
rtc_weekday_wrap(w) == (w + 1) % 7

\* line 113: the weekday field of the tuple given to machine.RTC().datetime
rtc_weekday(w) == w + 1

\* lines 105-122: one try of boot.py's sync_rtc(); e is the UTC second
\* ntptime.settime() put in the clock, NONE when it raised
boot_sync_rtc_step(b, e) ==
    IF b.attempt > SYNC_RTC_TRIES
    THEN [b EXCEPT !.rtc_ok = "False", !.pc = "done"]
    ELSE IF e = NONE THEN [b EXCEPT !.attempt = @ + 1]
    ELSE [b EXCEPT !.utc = e,
                   !.weekday = rtc_weekday(gmtime_weekday(e + TZ_OFFSET)),
                   !.rtc_ok = "True", !.pc = "done"]

\* ---------------------------------------------------------------- actions
LogFailures == {0, 1, LOG_RETRIES}
NoInput == {"-"}

\* the step on the program and, in lock-step, on the reference run
Do(now, next_m, next_ref) ==
    /\ Apply(next_m)
    /\ ref' = IF ref.pc = now THEN next_ref ELSE ref
    /\ UNCHANGED boot

Run(step(_, _, _), inputs) ==
    \E e \in inputs, k \in LogFailures :
        Do(pc, step(Cur, e, post_log_sync(k, LOG_RETRIES)),
               step(ref, e, post_log_sync(0, LOG_RETRIES)))

\* a step that holds no post_log_sync call
Quiet(step(_, _, _), inputs) ==
    \E e \in inputs : Do(pc, step(Cur, e, "none"), step(ref, e, "none"))

Main == pc = "main" /\ Run(main_step, NoInput)

EnsureWifi == pc = "ensure_wifi" /\ Run(ensure_wifi_step, NoInput)

WifiFor ==
    pc = "wifi_for" /\ Run(wifi_for_step, {"connected", "connect", "OSError"})

WifiWait == pc = "wifi_wait" /\ Run(wifi_wait_step, BOOLEAN)

WifiExhausted == pc = "wifi_exhausted" /\ Run(wifi_exhausted_step, NoInput)

WifiReturn == pc = "wifi_return" /\ Quiet(wifi_return_step, NoInput)

WifiFailed == pc = "wifi_failed" /\ Run(wifi_failed_step, NoInput)

SyncRtc == pc = "sync_rtc" /\ Run(sync_rtc_step, NoInput)

NtpTry ==
    pc = "ntp_try"
    /\ Run(ntp_try_step, IF attempt > NTP_TRIES THEN {NONE} ELSE Years \cup {NONE})

NtpReturn == pc = "ntp_return" /\ Quiet(ntp_return_step, NoInput)

Scan == pc = "scan" /\ Run(scan_step, NoInput)

ScanOpen == pc = "scan_open" /\ Run(scan_open_step, {"ok", "raise"})

ScanEvents ==
    {[kind |-> k, mac |-> "", name |-> ""] : k \in {"end", "raise"}}
    \cup (IF nads < MaxAds
          THEN {[kind |-> k, mac |-> a, name |-> n] :
                  k \in {"ad"}, a \in AirAddresses, n \in Names}
               \cup {[kind |-> "bad", mac |-> "", name |-> ""]}
          ELSE {})

ScanLoop == pc = "scan_loop" /\ Run(scan_loop_step, ScanEvents)

ScanCheck == pc = "scan_check" /\ Run(scan_check_step, NoInput)

FoundDevices == pc = "found_devices" /\ Quiet(found_devices_step, NoInput)

SyncDevices ==
    pc = "sync_devices"
    /\ Quiet(sync_devices_step, IF todo = {} THEN NoInput ELSE todo)

BleOutcomes == {"ok", "TimeoutError", "OSError", "other"}

BleConnect == pc = "ble_connect" /\ Quiet(ble_connect_step, BleOutcomes)

BleService == pc = "ble_service" /\ Quiet(ble_service_step, BleOutcomes)

BleChar == pc = "ble_char" /\ Quiet(ble_char_step, BleOutcomes)

BleWrite == pc = "ble_write" /\ Quiet(ble_write_step, BleOutcomes)

BleFinally ==
    pc = "ble_finally" /\ Quiet(ble_finally_step, {"ok", "raise", "unlisted"})

BleResult == pc = "ble_result" /\ Run(ble_result_step, NoInput)

BleError == pc = "ble_error" /\ Run(ble_error_step, NoInput)

Summary == pc = "summary" /\ Run(summary_step, NoInput)

MainSleeping == pc = "main_sleeping" /\ Run(main_sleeping_step, NoInput)

Fatal == pc = "fatal" /\ Run(fatal_step, NoInput)

\* the deep-sleep timer fires, or the reset completes: the program starts over
\* with its working memory lost and the slot and the clock kept
Wake ==
    /\ pc \in {"asleep", "reset"}
    /\ cycle < MaxCycles
    /\ Do(pc, [Boot(memory, rtc, cycle + 1) EXCEPT !.last_saved = last_saved],
           [Boot(ref.memory, ref.rtc, cycle + 1)
                EXCEPT !.last_saved = ref.last_saved])

Init ==
    \E mem \in InitMemories :
        /\ Apply_Init(Boot(mem, InitClock(mem), 1))
        /\ ref = Boot(mem, InitClock(mem), 1)
        /\ boot = BootOff

\* the steps of one wake cycle
NextAwake ==
    \/ Main \/ EnsureWifi \/ WifiFor \/ WifiWait \/ WifiExhausted \/ WifiFailed
    \/ WifiReturn \/ SyncRtc \/ NtpTry \/ NtpReturn
    \/ Scan \/ ScanOpen \/ ScanLoop \/ ScanCheck \/ FoundDevices
    \/ SyncDevices \/ BleConnect \/ BleService \/ BleChar \/ BleWrite
    \/ BleFinally \/ BleResult \/ BleError
    \/ Summary \/ MainSleeping \/ Fatal

Next == NextAwake \/ Wake

Spec == Init /\ [][Next]_vars

\* one wake cycle from power-on: the program keeps running while it is awake
\* (main() is the only thread and every wait of a step ends, by its answer or
\* by its timeout)
FairSpec == Init /\ [][NextAwake]_vars /\ WF_vars(NextAwake)

\* ------------------------------------------------------- boot.py actions
\* arguments of connect_wifi, and the seconds an NTP answer names: midnight
\* and 17:00 UTC of each day (17:00 is the next day in the local zone)
DeepSleepMs == {1234, 60000}
NtpSeconds == {d * SECONDS_PER_DAY + s : d \in 0 .. MaxDays, s \in {0, 61200}}

main_vars == <<pc, cycle, memory, rtc, sleep_sec, state, fails, bi, elapsed,
               wifi_ok, attempt, ok_ntp, found_targets, nads, ad, todo, results,
               mac, connection, outcome, stages, ntp_queries, ntp_valid,
               ntp_rejected, ntp_queried, ble_written, opened, closed,
               slept_ms, err, log_lost, ntp0, wifi0, connects, linked0, links,
               last_saved, ref>>

BootDo(next_b) == boot' = next_b /\ UNCHANGED main_vars

ConnectWifiFor ==
    /\ boot.pc = "for"
    /\ \E e \in {"connected", "connect", "raise"} :
           BootDo(connect_wifi_for_step(boot, e))
ConnectWifiPoll ==
    boot.pc = "poll" /\ \E e \in BOOLEAN : BootDo(connect_wifi_poll_step(boot, e))
ConnectWifiLinked ==
    boot.pc = "linked" /\ \E e \in BOOLEAN : BootDo(connect_wifi_linked_step(boot, e))
InternetCheck ==
    boot.pc = "check" /\ \E e \in BOOLEAN : BootDo(internet_check_step(boot, e))
DeepSleep ==
    /\ boot.pc = "deepsleep"
    /\ \E e \in {"returns", "raises", "halts"} : BootDo(deepsleep_step(boot, e))
BootMain ==
    boot.pc = "returned" /\ BootDo(boot_main_step(boot, "-"))
BootSyncRtc ==
    /\ boot.pc = "sync_rtc"
    /\ \E e \in NtpSeconds \cup {NONE} : BootDo(boot_sync_rtc_step(boot, e))

InitBoot ==
    /\ \E a \in 1 .. MaxAttempts, c \in 0 .. MaxCheckSeconds,
          t \in 0 .. MaxInternetTries, ms \in DeepSleepMs :
           boot = boot_entry(a, c, t, ms)
    /\ Apply_Init(Boot(EmptyMem, InitClock(EmptyMem), 1))
    /\ ref = Boot(EmptyMem, InitClock(EmptyMem), 1)

NextBoot ==
    \/ ConnectWifiFor \/ ConnectWifiPoll \/ ConnectWifiLinked \/ InternetCheck
    \/ DeepSleep \/ BootMain \/ BootSyncRtc

SpecBoot == InitBoot /\ [][NextBoot]_vars

\* ------------------------------------------------------------ properties
\* the counter `key` as a load_state() at this moment would read it
persisted(key) == dict_get(load_state(memory), key, 0)

entered(stage) == \E i \in DOMAIN stages : stages[i] = stage

\* C1: in a cycle where ensure_wifi returned False the orchestrator goes straight
\* to sleep: no NTP query, no BLE scan and no BLE write happens in that cycle, and
\* the sleep duration is BASE_SLEEP_SEC x multiplier(ntp_fails as the slot held it
\* before the cycle).
C1_WifiFailureSleepsDirectly ==
    wifi_ok = "False" =>
        /\ pc \in {"wifi_return", "wifi_failed", "main_sleeping", "asleep"}
        /\ ~ntp_queried /\ ~ble_written
        /\ ~entered("sync_rtc") /\ ~entered("scan") /\ ~entered("sync_devices")
        /\ sleep_sec = BASE_SLEEP_SEC * sleep_multiplier(ntp0)
        /\ persisted("ntp_fails") = ntp0
        /\ pc = "asleep" =>
             /\ stages = <<"main", "ensure_wifi", "wifi_failed", "sleep">>
             /\ slept_ms = BASE_SLEEP_SEC * sleep_multiplier(ntp0) * 1000

C1_Witness ==
    pc = "asleep" /\ wifi_ok = "False" /\ ntp0 = 4 /\ slept_ms = 28800000

\* C2: when every wait of the backoff schedule runs out, ensure_wifi returns
\* False and the persisted wifi_fails is exactly one more than before the call.
C2_ExhaustedScheduleAddsOne ==
    (pc = "wifi_return" /\ wifi_ok = "False") =>
        persisted("wifi_fails") = wifi0 + 1

\* C3: on SUMMARY -> SLEEP the duration handed to deep sleep is BASE_SLEEP_SEC x
\* multiplier(ntp_fails held in the slot when sleep is entered, that is after this
\* cycle's clock sync has updated it).
C3_SleepUsesCurrentCounter ==
    (pc = "asleep" /\ entered("summary")) =>
        slept_ms = BASE_SLEEP_SEC * sleep_multiplier(persisted("ntp_fails")) * 1000

\* C4: the sleep multiplier is 1 for f < 3, 2 for 3 <= f <= 5 and 4 for f >= 6; it
\* is non-decreasing in f and takes no other value.
C4_SleepMultiplier ==
    sleep_sec # NONE =>
        /\ ntp0 < 3 => sleep_sec = BASE_SLEEP_SEC
        /\ (3 <= ntp0 /\ ntp0 <= 5) => sleep_sec = 2 * BASE_SLEEP_SEC
        /\ ntp0 >= 6 => sleep_sec = 4 * BASE_SLEEP_SEC
        /\ \A f \in 0 .. ntp0 :
             /\ sleep_multiplier(f) \in {1, 2, 4}
             /\ sleep_multiplier(f) * BASE_SLEEP_SEC <= sleep_sec

C4_Witness ==
    /\ pc = "asleep" /\ cycle = 2 /\ ntp0 = 6
    /\ sleep_sec = 4 * BASE_SLEEP_SEC

\* C5: whenever sync_rtc returns True the persisted ntp_fails is 0, whatever it
\* was before and however many earlier tries of the call failed, and the try that
\* validated is the last query of the call.
C5_SuccessResetsCounter ==
    /\ ok_ntp = "True" =>
         /\ persisted("ntp_fails") = 0
         /\ pc # "ntp_try"
    /\ (pc = "ntp_return" /\ ok_ntp = "True") =>
         /\ ntp_valid = 1
         /\ ntp_queries = attempt

C5_Witness ==
    /\ pc = "ntp_return" /\ ok_ntp = "True"
    /\ attempt = 2 /\ ntp_rejected = 1 /\ ntp0 = 3 /\ rtc = 2024

\* C6: the real-time clock is modified only by a validated NTP answer: a try
\* whose year is below the floor leaves the clock as it was before the try.
C6_ClockSetOnlyWhenValidated ==
    [][/\ ntp_rejected' > ntp_rejected => rtc' = rtc
       /\ rtc' # rtc => ntp_valid' > ntp_valid]_vars

\* C7: in a cycle where ensure_wifi returned True the BLE scan is entered right
\* after sync_rtc, whether sync_rtc returned True or False.
C7_ScanFollowsClockSync ==
    (wifi_ok = "True"
     /\ pc \notin {"wifi_return", "sync_rtc", "ntp_try", "ntp_return", "scan"})
        => /\ Len(stages) >= 4
           /\ SubSeq(stages, 3, 4) = <<"sync_rtc", "scan">>
           /\ ok_ntp \in {"True", "False"}

C7_Witness ==
    /\ pc = "asleep" /\ wifi_ok = "True" /\ ok_ntp = "False"
    /\ entered("scan") /\ ble_written

\* C8: an unhandled error leads to the fatal path: the fault is handed to the
\* log, a hard reset follows and deep sleep is not entered; a cycle ends in
\* exactly one of deep sleep and hard reset.
C8_FatalResetsWithoutSleep ==
    /\ err # "none" => (pc \in {"fatal", "reset"} /\ slept_ms = NONE)
    /\ pc = "reset" =>
         /\ err # "none" /\ slept_ms = NONE
         /\ stages[Len(stages)] = "fatal" /\ ~entered("sleep")
    /\ pc = "asleep" =>
         /\ err = "none" /\ slept_ms # NONE
         /\ stages[Len(stages)] = "sleep" /\ ~entered("fatal")
    /\ pc = "fatal" => ENABLED Fatal

C8_Witness ==
    pc = "reset" /\ err = "OSError" /\ stages = <<"main", "ensure_wifi", "fatal">>

\* what a cycle shows of itself apart from the log
Observable(m) ==
    [pc |-> m.pc, stages |-> m.stages, memory |-> m.memory,
     sleep_sec |-> m.sleep_sec, slept_ms |-> m.slept_ms,
     wifi_ok |-> m.wifi_ok, ok_ntp |-> m.ok_ntp, results |-> m.results]

\* C9: log delivery does not influence the cycle: a failed delivery never raises
\* into the pipeline, and the stages run, the persisted counters and the sleep
\* duration are those of the run in which every delivery succeeds.
C9_LogDeliveryHasNoInfluence ==
    /\ err # "post_log_sync"
    /\ pc # "crashed"
    /\ Observable(Cur) = Observable(ref)

C9_Witness ==
    /\ pc = "asleep" /\ log_lost /\ ~ref.log_lost
    /\ ok_ntp = "True" /\ ble_written

\* C10: a record whose direct delivery failed is enqueued and not lost (and the
\* queue is flushed oldest first, stopping at the first failure).
C10_FailedRecordIsKept ==
    ~log_lost

\* C11: what save_state wrote is what load_state returns, in the cycle that
\* wrote it and after the deep sleep or reset that follows: the next cycle
\* computes its sleep from the saved ntp_fails and ensure_wifi starts from the
\* saved dict.
C11_SavedStateIsLoaded ==
    /\ load_state(memory) = last_saved
    /\ pc = "ensure_wifi" =>
           sleep_sec = BASE_SLEEP_SEC
                         * sleep_multiplier(dict_get(last_saved, "ntp_fails", 0))
    /\ (pc = "wifi_for" /\ bi = 1) => state = last_saved

\* a second cycle that starts from a dict only a save can have produced
C11_Witness ==
    /\ cycle = 2 /\ pc = "wifi_for" /\ bi = 1
    /\ state.wifi_fails = 3 /\ state.ntp_fails = 6
    /\ sleep_sec = 4 * BASE_SLEEP_SEC

\* C12: load_state on an empty or undecodable slot returns the default state:
\* both counters read 0 and the state carries a diagnostic_token (and a save
\* never changes a token the state carries).
C12_DefaultStateCarriesToken ==
    /\ (pc = "wifi_for" /\ bi = 1 /\ memory.kind # "json") =>
           /\ dict_get(state, "wifi_fails", 0) = 0
           /\ dict_get(state, "ntp_fails", 0) = 0
           /\ state.diagnostic_token # NONE
    /\ load_state(memory).diagnostic_token = last_saved.diagnostic_token

\* C13: connect_wifi returns True exactly when an internet check succeeded (a
\* check is made only in a round whose link is connected, at most
\* max_internet_tries per round, at most `attempts` rounds); the successful
\* check is the last one and no deep sleep is requested.  Otherwise all rounds
\* are used up, deep sleep is requested once with deep_sleep_ms, and the call
\* returns False if machine.deepsleep returns at all.
C13_ConnectWifiResult ==
    LET n == Len(boot.checks)
        ok == \E i \in 1 .. n : boot.checks[i]
    IN  /\ boot.rounds <= boot.attempts
        /\ boot.tries <= boot.max_internet_tries
        /\ n <= boot.attempts * boot.max_internet_tries
        /\ \A i \in 1 .. n : boot.checks[i] => i = n
        /\ ok => /\ boot.pc = "returned" /\ boot.result = "True"
                 /\ boot.deepsleeps = <<>>
        /\ boot.pc = "returned" => boot.result = IF ok THEN "True" ELSE "False"
        /\ boot.pc \in {"returned", "halted"} /\ ~ok =>
               /\ boot.rounds = boot.attempts
               /\ boot.deepsleeps = <<boot.deep_sleep_ms>>
        /\ boot.pc \in {"for", "poll", "linked", "check", "deepsleep"} =>
               boot.deepsleeps = <<>> /\ boot.result = "none"

\* every round was linked and every check of every round failed
C13_Witness ==
    /\ boot.pc = "returned" /\ boot.result = "False"
    /\ boot.attempts = 2 /\ boot.max_internet_tries = 2
    /\ boot.checks = <<FALSE, FALSE, FALSE, FALSE>>
    /\ boot.deepsleeps = <<1234>>

\* C14: the weekday field boot.py's sync_rtc writes to the RTC is w + 1 for the
\* source weekday w = 0 .. 5 (Monday .. Saturday) and 7 for w = 6 (Sunday),
\* w being the weekday of the local time (UTC + tz_offset).
C14_WeekdayField ==
    boot.rtc_ok = "True" =>
        LET w == gmtime_weekday(boot.utc + TZ_OFFSET)
        IN  /\ w \in 0 .. 6
            /\ boot.weekday = IF w = 6 THEN 7 ELSE w + 1

\* a Saturday 17:00 UTC answer: Sunday in the local zone
C14_Witness ==
    /\ boot.pc = "done" /\ boot.rtc_ok = "True"
    /\ gmtime_weekday(boot.utc) = 5
    /\ boot.weekday = 7

\* C15: every wake cycle ends: from the start of main() the cycle reaches deep
\* sleep or the hard reset, whatever the Wi-Fi link, the NTP server, the scan,
\* the peripherals and the log collector answer.
C15_CycleTerminates ==
    (pc = "main") ~> (pc \in {"asleep", "reset"})

\* a cycle that used every wait and every retry it has, and reached deep sleep
C15_Witness ==
    /\ pc = "asleep" /\ entered("summary")
    /\ ok_ntp = "False" /\ ntp_queried /\ ble_written /\ log_lost

\* C16: in sync_rtc every failed try (the query raised, or the year was below
\* MIN_YEAR) adds one to ntp_fails and saves it before the next try starts; no
\* more than NTP_TRIES queries are made; when they all fail the call returns
\* False and the slot holds the count it held before the call plus NTP_TRIES.
C16_FailedTriesAreCounted ==
    /\ ntp_queries <= NTP_TRIES
    /\ pc = "ntp_try" =>
           /\ attempt = ntp_queries + 1
           /\ persisted("ntp_fails") = ntp0 + ntp_queries
    /\ (pc = "ntp_return" /\ ok_ntp = "False") =>
           /\ ntp_queries = NTP_TRIES
           /\ persisted("ntp_fails") = ntp0 + NTP_TRIES

\* all tries failed, some by a raised query and some by the year check
C16_Witness ==
    /\ pc = "ntp_return" /\ ok_ntp = "False"
    /\ ntp_rejected = 2 /\ ntp_queries = NTP_TRIES
    /\ ntp0 = 2 /\ persisted("ntp_fails") = 2 + NTP_TRIES

\* the awaited calls of set_time's try block: CONNECT, RESOLVE (service and
\* characteristic) and WRITE
SetTimePhases == {"ble_connect", "ble_service", "ble_char", "ble_write"}

\* C17: a phase of set_time that fails (timeout or OSError) is tried again: the
\* first failure of a phase does not end the call, set_time returns False only
\* when a phase has used up a budget of several attempts.
C17_FailedPhaseIsRetried ==
    [][(pc \in SetTimePhases /\ outcome' = "False") => pc' = pc]_vars

\* C18: when set_time finishes, a link that device.connect opened has been
\* closed exactly once, whatever the later phases did, and no close was
\* attempted when connect produced no link.
C18_OpenedLinkClosedOnce ==
    pc \in {"ble_result", "ble_error"} => closed = opened

\* C19: an error raised by connection.disconnect() does not get out of
\* set_time and does not change its result: after an acknowledged write the
\* call returns True and the peripheral is recorded as synced.
C19_CleanupErrorsSwallowed ==
    [][(pc = "ble_finally" /\ outcome = "True") =>
          (outcome' = "True" /\ pc' = "ble_result")]_vars

\* C20: the scan result grows only by the address of a result that is a target
\* or whose name holds a product identifier; a result whose address is already
\* in the set leaves the set as it is; and once the set holds every target the
\* scan stops: the next step returns the set, no further result is taken.
C20_DiscoveryMatchAndEarlyExit ==
    [][/\ (pc \in {"scan_loop", "scan_check"} /\ found_targets' # found_targets) =>
            /\ pc = "scan_loop" /\ pc' = "scan_check"
            /\ found_targets' = found_targets \cup {ad'.mac}
            /\ ad'.mac \in LY_CLOCKS \/ ad'.name \in ProductNames
       /\ (pc' = "scan_check" /\ ad'.mac \in found_targets) =>
            found_targets' = found_targets
       /\ (pc = "scan_check" /\ LY_CLOCKS \subseteq found_targets) =>
            pc' = "found_devices" /\ found_targets' = found_targets
       /\ pc' = "scan_loop" => ~(LY_CLOCKS \subseteq found_targets')]_vars

\* a device known by its name only and both targets are in the set, the
\* second target being the result in hand: the scan is about to stop
C20_Witness ==
    /\ pc = "scan_check" /\ found_targets = Addresses
    /\ nads = Cardinality(Addresses) /\ ad.mac \in LY_CLOCKS

\* C21: when ensure_wifi returns True the slot holds wifi_fails = 0, whatever
\* it held before; and when wlan.isconnected() is True on entry the call
\* returns True at once: no wlan.connect call and no wait.
C21_WifiSuccessResetsCounter ==
    /\ (pc = "wifi_return" /\ wifi_ok = "True") => persisted("wifi_fails") = 0
    /\ linked0 = "True" =>
           /\ pc = "wifi_return" /\ wifi_ok = "True"
           /\ connects = 0 /\ elapsed = 0 /\ bi = 1

\* the link is up on entry while the slot holds three failures
C21_Witness ==
    /\ pc = "wifi_return" /\ wifi_ok = "True" /\ linked0 = "True"
    /\ wifi0 = 3 /\ persisted("wifi_fails") = 0

\* the positions inside one set_time call and the recording of its result
SetTimeCall == SetTimePhases \cup {"ble_finally", "ble_result", "ble_error"}

\* C22: sync_devices gives every address the scan returned one set_time call
\* and one recorded outcome, and no other address any; the calls come one
\* after the other, no link being open when the next one connects; and a
\* failure or exception at one device leaves the remaining devices their call.
C22_EveryFoundDeviceOnce ==
    /\ pc \in SetTimeCall =>
           /\ mac \in found_targets /\ mac \notin todo
           /\ pc \notin {"ble_result", "ble_error"} => results[mac] = "none"
           /\ \A a \in found_targets \ {mac} :
                  (a \in todo) # (results[a] # "none")
    /\ \A a \in Addresses : results[a] # "none" => a \in found_targets
    /\ (entered("sync_devices") /\ pc \in {"summary", "main_sleeping", "asleep"}) =>
           \A a \in found_targets : results[a] # "none"
    /\ links <= 1
    /\ pc = "ble_connect" => links = 0
====
